---- MODULE Spec2Model ----
(***************************************************************************)
(* A model of the ingestion pipeline (scripts/process_data.py), the vector *)
(* store client (common/qdrant_client.py) and the search tool server       *)
(* (src/main.py) of terraform-analysis-agent.                              *)
(*                                                                         *)
(* Strings that the code inspects character by character (file names,      *)
(* file contents, keywords) are sequences of one-character strings.        *)
(***************************************************************************)
EXTENDS Integers, Sequences, FiniteSets, TLC

VARIABLES
    repo_dirs,   \* process_data: the repository directories found under GITHUB_DIR
    mtime,       \* filesystem: file name -> modification counter (os.path.getmtime)
    store,       \* the Qdrant collection: a set of points
    phase,       \* "idle" | "running": whether a process_data call is in progress
    status,      \* what the last process_data call returned
    tasks,       \* file name -> the wrapped_task of the current (or last) run
    sem,         \* free permits of the run's asyncio.Semaphore
    upserted,    \* history: points written by upsert_vectors since the run started
    clean_rerun, \* history: this run follows a successful run over unchanged files
    irrelevant_file_paths, \* RepoContext.irrelevant_file_paths of the tool server
    search,      \* the search tool call in progress (or the last one)
    response,    \* what the last tool call returned to its caller
    last_query,  \* history: the last call of QdrantDB.query_vectors
    marked,      \* history: the paths given to update_irrelevant_file_paths
                 \* since the last reset, in the order given
                 \* since the last reset_irrelevant_file_paths
    collection,  \* the Qdrant collection's existence and vector parameters
    last_call,   \* history: the last direct call of a QdrantDB method
    chunker,     \* the chunking loop of process_file run on its own
    classified,  \* the last path given to get_file_type and its result
    store0       \* history: the points in the store when the run started

ingestVars == <<repo_dirs, mtime, phase, status, tasks, sem, upserted, clean_rerun,
                store0>>

serverVars == <<irrelevant_file_paths, search, response, last_query, marked>>

libVars == <<collection, last_call, chunker, classified>>

vars == <<repo_dirs, mtime, store, phase, status, tasks, sem, upserted, clean_rerun,
          irrelevant_file_paths, search, response, last_query, marked,
          collection, last_call, chunker, classified, store0>>

----------------------------------------------------------------------------
(* Configuration.  The window sizes and the permit count are the program's *)
(* constants scaled down so that multi-chunk files, multi-batch files and  *)
(* a full semaphore all occur with files of at most five characters.       *)

MAX_CHARS == 3
OVERLAP == 1
CHUNK_BATCH_SIZE == 2
MAX_CONCURRENT_TASKS == 2

\* How many times a file can be modified (mtime runs over 1..MaxMtime).
MaxMtime == 2

CODE == {<<".", "t", "f">>, <<".", "g", "o">>}
DOCUMENT == {<<".", "m", "d">>}

----------------------------------------------------------------------------
(* Strings *)

Min(a, b) == IF a <= b THEN a ELSE b

UpperCase == <<"A","B","C","D","E","F","G","H","I","J","K","L","M",
               "N","O","P","Q","R","S","T","U","V","W","X","Y","Z">>
LowerCase == <<"a","b","c","d","e","f","g","h","i","j","k","l","m",
               "n","o","p","q","r","s","t","u","v","w","x","y","z">>

\* str.lower(), one character
LowerChar(c) ==
    IF \E i \in 1..26 : UpperCase[i] = c
    THEN LowerCase[CHOOSE i \in 1..26 : UpperCase[i] = c]
    ELSE c

\* str.lower()
Lower(s) == [i \in 1..Len(s) |-> LowerChar(s[i])]

\* a slice bound as Python reads it: a negative one counts from the end,
\* and both are clamped to 0..n
SliceIndex(i, n) == IF i < 0 THEN (IF i + n < 0 THEN 0 ELSE i + n) ELSE Min(i, n)

\* text[start:end] (0-based, end exclusive)
Slice(text, start, end) ==
    LET from == SliceIndex(start, Len(text))
        to   == SliceIndex(end, Len(text))
    IN IF from < to THEN SubSeq(text, from + 1, to) ELSE <<>>

\* sub in s
Contains(s, sub) ==
    \E i \in 0..(Len(s) - Len(sub)) : SubSeq(s, i + 1, i + Len(sub)) = sub

\* the last index of character c in s, 0 when absent (str.rfind, 1-based)
RFind(s, c) ==
    IF \E i \in 1..Len(s) : s[i] = c
    THEN CHOOSE i \in 1..Len(s) : s[i] = c /\ \A j \in (i + 1)..Len(s) : s[j] # c
    ELSE 0

\* Path.name: the final path component
PathName(path) == SubSeq(path, RFind(path, "/") + 1, Len(path))

\* Path.suffix: the part of the name from its last dot, when that dot is
\* neither the first nor the last character of the name
PathSuffix(path) ==
    LET name == PathName(path)
        dot  == RFind(name, ".")
    IN IF 1 < dot /\ dot < Len(name) THEN SubSeq(name, dot, Len(name)) ELSE <<>>

\* os.path.join(a, b) for a relative b
PathJoin(a, b) == a \o <<"/">> \o b

----------------------------------------------------------------------------
(* The repository on disk: one repository directory holding four files.    *)

RepoName == <<"i", "a", "c">>
MainTf   == <<"m", "a", "i", "n", ".", "t", "f">>
ReadmeMd == <<"R", "E", "A", "D", "M", "E", ".", "m", "d">>
TestTxt  == <<"T", "e", "s", "t", ".", "t", "x", "t">>
NotesTxt == <<"n", "o", "t", "e", "s", ".", "t", "x", "t">>

VarsTf   == <<"v", "a", "r", "s", ".", "t", "f">>
HandlerTestGo == <<"h", "a", "n", "d", "l", "e", "r", "_", "t", "e", "s", "t", ".", "g", "o">>

\* the files of the repository during the ingestion runs
Files == {MainTf, ReadmeMd, TestTxt, NotesTxt}

\* the files of the repository the tool server searches
SearchFiles == {MainTf, VarsTf, HandlerTestGo, ReadmeMd, TestTxt}

\* The files that are edited between runs.
Edited == {MainTf, ReadmeMd}

Alphabet == <<"a", "b", "c", "d", "e">>

\* The length of file f after its m-th modification.
FileLen(f, m) ==
    IF f = MainTf   THEN (IF m % 2 = 1 THEN 5 ELSE 2)
    ELSE IF f = ReadmeMd THEN (IF m % 2 = 1 THEN 2 ELSE 0)
    ELSE IF f = TestTxt  THEN 4
    ELSE IF f = VarsTf   THEN 2
    ELSE IF f = HandlerTestGo THEN 4
    ELSE 3

\* f.read(): the content of file f after its m-th modification.
FileText(f, m) == SubSeq(Alphabet, 1, FileLen(f, m))

\* datetime.fromtimestamp(mtime, tz=utc).isoformat()
IsoFormat(m) == <<"utc", m>>

----------------------------------------------------------------------------
(* File classifier *)

\* (mutant) the "test" substring of the name is looked at first
get_file_type_test_first(file_relative_path) ==
    LET suffix == PathSuffix(file_relative_path)
    IN IF Contains(Lower(PathName(file_relative_path)), <<"t", "e", "s", "t">>)
       THEN "test"
       ELSE IF suffix \in CODE THEN "code"
       ELSE IF suffix \in DOCUMENT THEN "document"
       ELSE "not_supported"

\* get_file_type: extension first, then the "test" substring of the name
get_file_type(file_relative_path) ==
    LET suffix == PathSuffix(file_relative_path)
    IN IF suffix \in CODE THEN "code"
       ELSE IF suffix \in DOCUMENT THEN "document"
       ELSE IF Contains(Lower(PathName(file_relative_path)), <<"t", "e", "s", "t">>)
            THEN "test"
       ELSE "not_supported"

----------------------------------------------------------------------------
(* Chunking loop of process_file *)

\* (mutant) the loop also runs when start has reached the end of the text
ChunkLoopContinuesAtEnd(start, text) == start <= Len(text)

\* while start < len(text)
ChunkLoopContinues(start, text) == start < Len(text)

\* (mutant) the window is one character short
WindowShort(text, start, max_chars) == Slice(text, start, start + max_chars - 1)

\* end = start + MAX_CHARS; text[start:end]
Window(text, start, max_chars) == Slice(text, start, start + max_chars)

\* (mutant) the start advances by the whole window
NextStartNoOverlap(start, max_chars, overlap) == start + max_chars

\* start += MAX_CHARS - OVERLAP
NextStart(start, max_chars, overlap) == start + (max_chars - overlap)

RECURSIVE ChunkLoop(_, _, _, _, _)
ChunkLoop(text, start, chunks, max_chars, overlap) ==
    IF ChunkLoopContinues(start, text)
    THEN ChunkLoop(text, NextStart(start, max_chars, overlap),
                   Append(chunks, Window(text, start, max_chars)),
                   max_chars, overlap)
    ELSE chunks

\* start = 0; chunks = []; while start < len(text): ...
Chunks(text) == ChunkLoop(text, 0, <<>>, MAX_CHARS, OVERLAP)

----------------------------------------------------------------------------
(* Vector store client (QdrantDB).  A point is a record                    *)
(*   [id, file_type, file_path, last_modified, repo, content];             *)
(* the vector is left out: ranking by similarity is the store's business   *)
(* and is modelled as a free choice among the points a query matches.      *)
(* A filter is [must |-> sequence of conditions, must_not |-> set of       *)
(* conditions], a condition [key, kind, value] with kind "value"           *)
(* (MatchValue) or "text" (MatchText).                                     *)

MatchValue(key, value) == [key |-> key, kind |-> "value", value |-> value]
MatchText(key, text)   == [key |-> key, kind |-> "text", value |-> text]

CondHolds(p, c) ==
    IF c.kind = "text" /\ c.key = "content"
    THEN Contains(p.content, c.value)
    ELSE p[c.key] = c.value

Matches(p, filter) ==
    /\ \A i \in 1..Len(filter.must) : CondHolds(p, filter.must[i])
    /\ \A c \in filter.must_not : ~CondHolds(p, c)

\* (mutant) the existence check asks for more than one matching point
check_metadata_exists_gt1(st, metadata_filter) ==
    Cardinality({p \in st : Matches(p, metadata_filter)}) > 1

\* client.count(count_filter=...).count > 0
check_metadata_exists(st, metadata_filter) ==
    Cardinality({p \in st : Matches(p, metadata_filter)}) > 0

\* (mutant) one matching point is deleted
delete_first_match(st, metadata_filter) ==
    IF \E p \in st : Matches(p, metadata_filter)
    THEN st \ {CHOOSE p \in st : Matches(p, metadata_filter)}
    ELSE st

\* client.delete(collection, filter)
delete_vectors_by_filter(st, metadata_filter) ==
    {p \in st : ~Matches(p, metadata_filter)}

\* client.upsert(points=...): insert, or overwrite the point of the same id
upsert_vectors(st, points) ==
    LET new == {points[k] : k \in 1..Len(points)}
    IN {p \in st : \A q \in new : q.id # p.id} \cup new

----------------------------------------------------------------------------
(* process_file *)

\* os.path.join(repo_name, os.path.relpath(file_path, repo_dir))
RelativePath(f) == PathJoin(RepoName, f)

\* (mutant) the filter leaves out the modification time
MetadataFilterPathOnly(relative_path, last_modified) ==
    [must |-> << MatchValue("file_path", relative_path) >>, must_not |-> {}]

\* the filter built at the top of process_file
MetadataFilter(relative_path, last_modified) ==
    [must |-> << MatchValue("file_path", relative_path),
                 MatchValue("last_modified", last_modified) >>,
     must_not |-> {}]

\* (mutant) the delete goes by the path alone
DeleteFilterPathOnly(metadata_filter) ==
    [must |-> <<metadata_filter.must[1]>>, must_not |-> {}]

\* (mutant) the delete goes by the modification time alone
DeleteFilterTimeOnly(metadata_filter) ==
    [must |-> <<metadata_filter.must[2]>>, must_not |-> {}]

\* qdrant_db.delete_vectors_by_filter(metadata_filter): the filter of the
\* existence check is the filter of the delete
DeleteFilter(metadata_filter) == metadata_filter

\* uuid.uuid4(): an id no stored point has.  Ids are <<path, generation, k>>;
\* the generation is the least one no stored point of that path carries.
Generations(st, path) == {p.id[2] : p \in {q \in st : q.id[1] = path}}
FreshGeneration(st, path) ==
    CHOOSE n \in 0..Cardinality(st) :
        /\ n \notin Generations(st, path)
        /\ \A m \in 0..(n - 1) : m \in Generations(st, path)

\* the PointStruct built for the k-th chunk (0-based) of a file
PointStruct(gen, k, file_type, relative_path, last_modified, chunk) ==
    [id            |-> <<relative_path, gen, k>>,
     file_type     |-> file_type,
     file_path     |-> relative_path,
     last_modified |-> last_modified,
     repo          |-> RepoName,
     content       |-> chunk]

\* batch_points for chunks[i : i + CHUNK_BATCH_SIZE]
BatchPoints(t, st) ==
    LET gen  == FreshGeneration(st, t.relative_path)
        last == Min(t.i + CHUNK_BATCH_SIZE, Len(t.chunks))
    IN [k \in 1..(last - t.i) |->
           PointStruct(gen, t.i + k - 1, t.file_type, t.relative_path,
                       t.last_modified, t.chunks[t.i + k])]

NoTask ==
    [pc |-> "none", result |-> "", file_type |-> "", relative_path |-> <<>>,
     last_modified |-> <<>>, chunks |-> <<>>, i |-> 0, all_points |-> <<>>,
     prev |-> "no"]

Terminal == {"done", "failed", "cancelled"}

\* The task of a file ends: its coroutine's locals are gone, what is kept is
\* the file version it looked at and how it ended: "unsupported", "unchanged"
\* or "upserted" for a task that returned, "exists" (the existence check
\* raised) or "raised" (a later call raised) for one that failed, and where
\* it was suspended for one that was cancelled.
Ended(t, pc, result) ==
    [t EXCEPT !.pc = pc, !.result = result, !.chunks = <<>>, !.i = 0,
              !.all_points = <<>>]

\* (mutant) the permit count is not looked at
SemaphoreIgnored(s) == TRUE

\* semaphore.acquire() returns at once iff a permit is free
SemaphoreFree(s) == s > 0

\* (mutant) leaving `async with semaphore` keeps the permit
ReleaseLeaks(s) == s

\* leaving `async with semaphore`, by return or by exception: release()
Release(s) == s + 1

\* (mutant) no file type is skipped
ReturnsBeforeStoreCallsNever(file_type) == FALSE

\* if file_type == FileType.NOT_SUPPORTED: return [], ahead of every call of
\* the store
ReturnsBeforeStoreCalls(file_type) == file_type = "not_supported"

\* file_type = get_file_type(relative_path), for every file of the repository
FileTypeOf == [f \in Files |-> get_file_type(RelativePath(f))]

\* the chunks the loop of process_file makes of every version of every file
ChunksOf == [f \in Files |-> [m \in 1..MaxMtime |-> Chunks(FileText(f, m))]]

\* The task of file f gets a permit and runs process_file up to its first
\* suspension point (the first embed_fn call) or to its end.  `fail` is the
\* call that raises, "" for none.
Begin(f, fail) ==
    LET relative_path == RelativePath(f)
        file_type     == FileTypeOf[f]
        last_modified == IsoFormat(mtime[f])
        filter        == MetadataFilter(relative_path, last_modified)
        t0 == [tasks[f] EXCEPT !.file_type = file_type,
                               !.relative_path = relative_path,
                               !.last_modified = last_modified]
        finish(pc, result) == Ended(t0, pc, result)
        cleaned == delete_vectors_by_filter(store, DeleteFilter(filter))
        chunks  == ChunksOf[f][mtime[f]]
    IN
    /\ phase = "running"
    /\ tasks[f].pc = "created"
    /\ SemaphoreFree(sem)
    /\ IF ReturnsBeforeStoreCalls(file_type)
       THEN /\ fail = ""
            /\ tasks' = [tasks EXCEPT ![f] = finish("done", "unsupported")]
            /\ UNCHANGED <<store, sem, upserted>>
       ELSE IF fail = "exists"
       THEN /\ tasks' = [tasks EXCEPT ![f] = finish("failed", "exists")]
            /\ UNCHANGED <<store, sem, upserted>>
       ELSE IF check_metadata_exists(store, filter)
       THEN /\ fail = ""
            /\ tasks' = [tasks EXCEPT ![f] = finish("done", "unchanged")]
            /\ UNCHANGED <<store, sem, upserted>>
       ELSE IF fail = "delete"
       THEN /\ tasks' = [tasks EXCEPT ![f] = finish("failed", "raised")]
            /\ UNCHANGED <<store, sem, upserted>>
       ELSE IF fail = "read"
       THEN /\ tasks' = [tasks EXCEPT ![f] = finish("failed", "raised")]
            /\ store' = cleaned
            /\ UNCHANGED <<sem, upserted>>
       ELSE IF Len(chunks) = 0
       THEN \* no batch, no suspension: upsert_vectors(points=[]) at once
            /\ fail \in {"", "upsert"}
            /\ tasks' = [tasks EXCEPT ![f] =
                   IF fail = "upsert" THEN finish("failed", "raised")
                                      ELSE finish("done", "upserted")]
            /\ store' = IF fail = "upsert" THEN cleaned
                        ELSE upsert_vectors(cleaned, <<>>)
            /\ UNCHANGED <<sem, upserted>>
       ELSE /\ fail = ""
            /\ tasks' = [tasks EXCEPT ![f] =
                   [t0 EXCEPT !.pc = "embedding", !.chunks = chunks, !.i = 0,
                              !.all_points = <<>>]]
            /\ store' = cleaned
            /\ sem' = sem - 1
            /\ UNCHANGED upserted
    /\ UNCHANGED <<repo_dirs, mtime, phase, status, clean_rerun, store0>>
    /\ UNCHANGED <<serverVars, libVars>>

\* process_file runs from `async with semaphore` to its first await or its end
StartTask(f) == Begin(f, "")

\* ... and one of its calls before the first await raises
StartTaskRaises(f) == \E fail \in {"exists", "delete", "read", "upsert"} : Begin(f, fail)

\* (mutant) every batch is upserted as soon as it is embedded
StoreAfterBatchUpserted(st, batch_points) == upsert_vectors(st, batch_points)

\* all_points.extend(batch_points): a batch that is not the last leaves the
\* store as it is
StoreAfterBatch(st, batch_points) == st

\* embed_fn returns for the batch at i: the batch's points are built; after
\* the last batch the file's points are upserted in one call (`fail`: the
\* upsert raises) and the permit is released.
EmbedDone(f, fail) ==
    LET t      == tasks[f]
        points == t.all_points \o BatchPoints(t, store)
        next   == t.i + CHUNK_BATCH_SIZE
    IN
    /\ phase = "running"
    /\ t.pc = "embedding"
    /\ IF next < Len(t.chunks)
       THEN /\ ~fail
            /\ tasks' = [tasks EXCEPT ![f] = [t EXCEPT !.i = next, !.all_points = points]]
            /\ store' = StoreAfterBatch(store, BatchPoints(t, store))
            /\ UNCHANGED <<sem, upserted>>
       ELSE IF fail
       THEN /\ tasks' = [tasks EXCEPT ![f] = Ended(t, "failed", "raised")]
            /\ sem' = Release(sem)
            /\ UNCHANGED <<store, upserted>>
       ELSE /\ tasks' = [tasks EXCEPT ![f] = Ended(t, "done", "upserted")]
            /\ store' = upsert_vectors(store, points)
            /\ upserted' = upserted + Len(points)
            /\ sem' = Release(sem)
    /\ UNCHANGED <<repo_dirs, mtime, phase, status, clean_rerun, store0>>
    /\ UNCHANGED <<serverVars, libVars>>

EmbedReturns(f) == EmbedDone(f, FALSE)

UpsertRaises(f) == EmbedDone(f, TRUE)

\* embed_fn raises: process_file raises, the permit is released
EmbedRaises(f) ==
    /\ phase = "running"
    /\ tasks[f].pc = "embedding"
    /\ tasks' = [tasks EXCEPT ![f] = Ended(@, "failed", "raised")]
    /\ sem' = Release(sem)
    /\ UNCHANGED <<repo_dirs, mtime, store, phase, status, upserted, clean_rerun, store0>>
    /\ UNCHANGED <<serverVars, libVars>>

----------------------------------------------------------------------------
(* process_data *)

\* How the file's task of the previous run ended, if the file is unchanged
\* since: "exists" (the existence check raised), "pipeline" (a later call of
\* process_file raised, or the run was cancelled while the task was suspended
\* in it), "no" otherwise.
Previous(f) ==
    LET old == tasks[f]
    IN IF old.last_modified # IsoFormat(mtime[f]) THEN "no"
       ELSE IF old.pc = "failed" /\ old.result = "exists" THEN "exists"
       ELSE IF old.pc = "failed" \/ (old.pc = "cancelled" /\ old.result = "embedding")
            THEN "pipeline"
       ELSE "no"

\* repo_dirs is empty: process_data returns before creating anything
NoRepositories ==
    /\ phase = "idle"
    /\ repo_dirs = {}
    /\ status' = <<"No local repositories found">>
    /\ UNCHANGED <<repo_dirs, mtime, store, phase, tasks, sem, upserted, clean_rerun, store0>>
    /\ UNCHANGED <<serverVars, libVars>>

\* process_data up to `await asyncio.gather`: the semaphore and one task per
\* file of every repository are created
StartRun ==
    /\ phase = "idle"
    /\ repo_dirs # {}
    /\ phase' = "running"
    /\ status' = <<"pending">>
    /\ sem' = MAX_CONCURRENT_TASKS
    /\ tasks' = [f \in Files |-> [NoTask EXCEPT !.pc = "created", !.prev = Previous(f)]]
    /\ upserted' = 0
    /\ store0' = store
    /\ clean_rerun' = /\ status = <<"Processing completed successfully">>
                      /\ \A f \in Files : tasks[f].last_modified = IsoFormat(mtime[f])
    /\ UNCHANGED <<repo_dirs, mtime, store>>
    /\ UNCHANGED <<serverVars, libVars>>

\* errors = [r for r in results if isinstance(r, Exception)]
Errors(ts) == {f \in Files : ts[f].pc = "failed"}

\* the status process_data returns after gather (an f-string, kept as its
\* parts; every status is a tuple of parts)
ProcessDataStatus(ts) ==
    IF Errors(ts) # {}
    THEN <<"Processing completed with", Cardinality(Errors(ts)), "errors">>
    ELSE <<"Processing completed successfully">>

\* (mutant) gather without return_exceptions: the first exception ends it
GatherFirstException(ts) ==
    \/ \A f \in Files : ts[f].pc \in Terminal
    \/ \E f \in Files : ts[f].pc = "failed"

\* gather(*tasks, return_exceptions=True) returns once every task has ended
GatherReady(ts) == \A f \in Files : ts[f].pc \in Terminal

Finish ==
    /\ phase = "running"
    /\ GatherReady(tasks)
    /\ phase' = "idle"
    /\ status' = ProcessDataStatus(tasks)
    /\ UNCHANGED <<repo_dirs, mtime, store, tasks, sem, upserted, clean_rerun, store0>>
    /\ UNCHANGED <<serverVars, libVars>>

\* The run is cancelled while process_data waits in gather: every task that
\* has not ended gets CancelledError at its suspension point (waiting for a
\* permit, or in embed_fn) and process_data returns nothing.
CancelRun ==
    /\ phase = "running"
    /\ ~GatherReady(tasks)
    /\ phase' = "idle"
    /\ status' = <<"cancelled">>
    /\ tasks' = [f \in Files |->
                   IF tasks[f].pc \in Terminal THEN tasks[f]
                   ELSE Ended(tasks[f], "cancelled", tasks[f].pc)]
    /\ sem' = MAX_CONCURRENT_TASKS
    /\ UNCHANGED <<repo_dirs, mtime, store, upserted, clean_rerun, store0>>
    /\ UNCHANGED <<serverVars, libVars>>

\* Between two runs a file is modified: new content, new modification time.
Touch(f) ==
    /\ phase = "idle"
    /\ f \in Edited
    /\ mtime[f] < MaxMtime
    /\ mtime' = [mtime EXCEPT ![f] = @ + 1]
    /\ UNCHANGED <<repo_dirs, store, phase, status, tasks, sem, upserted, clean_rerun, store0>>
    /\ UNCHANGED <<serverVars, libVars>>

----------------------------------------------------------------------------
(* QdrantDB.query_vectors.  An optional argument is a set: {} for None,    *)
(* {x} for the value x.  The path None (and the empty path, which the      *)
(* caller treats alike) is <<>>.                                           *)

None == <<>>

\* (mutant) supplying both arguments is rejected as well
QueryArgsNotExactlyOne(query_vector, metadata_filter) ==
    (query_vector = {}) <=> (metadata_filter = {})

\* if query_vector is None and metadata_filter is None: raise ValueError
QueryArgsInvalid(query_vector, metadata_filter) ==
    query_vector = {} /\ metadata_filter = {}

\* client.query_points(query=..., query_filter=...).points: the points the
\* filter lets through; which of them comes first is the store's choice
QueryPoints(st, query_vector, metadata_filter) ==
    {p \in st : \A filter \in metadata_filter : Matches(p, filter)}

\* the values query_vectors may return: None when no point matches, else the
\* file_path of the first point
query_vectors(st, query_vector, metadata_filter) ==
    LET results == QueryPoints(st, query_vector, metadata_filter)
    IN IF results = {} THEN {None} ELSE {p.file_path : p \in results}

\* the record kept of a call of query_vectors
QueryCall(query_vector, metadata_filter) ==
    [called      |-> TRUE,
     has_vector  |-> query_vector # {},
     has_filter  |-> metadata_filter # {},
     value_error |-> QueryArgsInvalid(query_vector, metadata_filter),
     performed   |-> ~QueryArgsInvalid(query_vector, metadata_filter)]

NoQuery == [called |-> FALSE, has_vector |-> FALSE, has_filter |-> FALSE,
            value_error |-> FALSE, performed |-> FALSE]

\* embed_fn(prompt)[0]: the vector of a text
Embedding(text) == <<"embedding", text>>

----------------------------------------------------------------------------
(* Search tool server (src/main.py) *)

DEFAULT_N_RESULTS == 5

\* How long the irrelevant-paths list can get.
MaxIrrelevant == 2

\* sep.join(parts), for parts that are character sequences
RECURSIVE Join(_, _)
Join(sep, parts) ==
    IF Len(parts) = 0 THEN <<>>
    ELSE IF Len(parts) = 1 THEN parts[1]
    ELSE parts[1] \o sep \o Join(sep, Tail(parts))

Range(seq) == {seq[i] : i \in 1..Len(seq)}

\* The exception that the argument checks and the search_term expression of
\* _search_files and _format_response raise, "" when none.
\*   prompt or ", ".join(keywords)  joins when the prompt is None or empty.
ArgumentError(prompt, keywords) ==
    IF prompt = {} /\ keywords = {} THEN "ValueError"
    ELSE IF prompt # {} /\ keywords # {} THEN "ValueError"
    ELSE IF prompt = {<<>>} /\ keywords = {} THEN "TypeError"
    ELSE ""

\* search_term = prompt or ", ".join(keywords)
SearchTerm(prompt, keywords) ==
    IF prompt # {} /\ prompt # {<<>>}
    THEN CHOOSE t \in prompt : TRUE
    ELSE Join(<<",", " ">>, CHOOSE k \in keywords : TRUE)

\* must_conditions: the file type, and every keyword in the content
MustConditions(file_type, keywords) ==
    LET kws == IF keywords = {} THEN <<>> ELSE CHOOSE k \in keywords : TRUE
    IN <<MatchText("file_type", file_type)>>
       \o [i \in 1..Len(kws) |-> MatchText("content", kws[i])]

\* seen_paths = set(irrelevant_paths)
SeenPaths(irrelevant_paths) == Range(irrelevant_paths)

\* (mutant) the filter excludes the paths of the session's list as it is now
SearchFilterLive(s) ==
    [must |-> MustConditions(s.file_type, s.keywords),
     must_not |-> {MatchValue("file_path", file_path) :
                      file_path \in s.seen_paths \cup Range(irrelevant_file_paths)}]

\* the Filter built at the top of each loop iteration
SearchFilter(s) ==
    [must |-> MustConditions(s.file_type, s.keywords),
     must_not |-> {MatchValue("file_path", file_path) : file_path \in s.seen_paths}]

\* (mutant) the loop runs once more
LoopContinuesOffByOne(s) == Len(s.file_paths) <= s.n_results

\* while len(file_paths) < n_results
LoopContinues(s) == Len(s.file_paths) < s.n_results

\* the rest of a loop iteration once query_vectors has returned file_path
AfterQuery(s, file_path) ==
    IF file_path # None
    THEN [s EXCEPT !.file_paths = Append(@, file_path),
                   !.seen_paths = @ \cup {file_path},
                   !.queries = @ + 1]
    ELSE [s EXCEPT !.queries = @ + 1, !.broke = TRUE]

\* The ways the keyword loop of _search_files can end: the loop runs without
\* suspension; a query returns a path or None, or raises.
RECURSIVE KeywordLoop(_, _)
KeywordLoop(s, st) ==
    IF s.broke \/ ~LoopContinues(s)
    THEN {s}
    ELSE {[s EXCEPT !.raised = "QueryError"]}
         \cup UNION {KeywordLoop(AfterQuery(s, file_path), st) :
                        file_path \in query_vectors(st, {}, {SearchFilter(s)})}

\* _search_files up to its loop: the arguments are checked and the search's
\* locals are set
NewSearch(file_type, n_results, prompt, keywords) ==
    [pc         |-> "running",
     file_type  |-> file_type,
     n_results  |-> n_results,
     prompt     |-> prompt,
     keywords   |-> keywords,
     seen_paths |-> SeenPaths(irrelevant_file_paths),
     file_paths |-> <<>>,
     queries    |-> 0,
     broke      |-> FALSE,
     raised     |-> ArgumentError(prompt, keywords),
     excluded   |-> Range(marked),
     unreadable |-> {}]

NoSearch ==
    [pc |-> "idle", file_type |-> "", n_results |-> 0, prompt |-> {},
     keywords |-> {}, seen_paths |-> {}, file_paths |-> <<>>, queries |-> 0,
     broke |-> FALSE, raised |-> "", excluded |-> {}, unreadable |-> {}]

\* one "### File" section of the response: the file's heading, what was
\* read of it (nothing when open or read raised), and the end line or the
\* error line
Section(file_path, readable) ==
    IF readable
    THEN <<"\n### File: ", file_path, "\n",
           FileText(PathName(file_path), mtime[PathName(file_path)]),
           "\n### End of ", file_path, "\n">>
    ELSE <<"\n### File: ", file_path, "\n",
           <<>>,
           "\nError reading file ", file_path, ": OSError\n">>

\* (mutant) the first read that fails ends the formatting
RECURSIVE SectionsUntilError(_, _)
SectionsUntilError(file_paths, unreadable) ==
    IF Len(file_paths) = 0 THEN <<>>
    ELSE IF file_paths[1] \in unreadable THEN Section(file_paths[1], FALSE)
    ELSE Section(file_paths[1], TRUE) \o SectionsUntilError(Tail(file_paths), unreadable)

RECURSIVE Sections(_, _)
Sections(file_paths, unreadable) ==
    IF Len(file_paths) = 0 THEN <<>>
    ELSE Section(file_paths[1], file_paths[1] \notin unreadable)
         \o Sections(Tail(file_paths), unreadable)

\* _format_response, for arguments that pass its checks: the text as the
\* sequence of the parts its f-strings put together
FormatResponse(file_paths, file_type, prompt, keywords, unreadable) ==
    LET search_term == SearchTerm(prompt, keywords)
        search_type == IF prompt # {} THEN "semantic" ELSE "exact"
    IN IF Len(file_paths) = 0
       THEN <<"No ", search_type, " matches found for ", file_type, ": '",
              search_term, "'. Try a different ",
              IF search_type = "semantic" THEN "description" ELSE "keywords", ".">>
       ELSE <<"Found ", search_type, " matches for '", search_term,
              "' in the following ", Len(file_paths), " ", file_type,
              " files: [", Join(<<",", " ">>, file_paths), "]\n",
              "Please add files that are not relevant to the current task to irrelevant_file_paths!\n">>
            \o Sections(file_paths, unreadable)

\* (mutant) only ValueError is caught
CaughtValueErrorOnly(exception) == exception = "ValueError"

\* except Exception as e
Caught(exception) == TRUE

\* The body of a search tool once _search_files has ended in s: the response
\* is formatted, or the exception is turned into a text; an exception that
\* is not caught reaches the tool's caller.
ToolReturn(s, unreadable) ==
    LET error == IF s.raised # "" THEN s.raised
                 ELSE ArgumentError(s.prompt, s.keywords)
    IN IF error = ""
       THEN <<"returned", FormatResponse(s.file_paths, s.file_type, s.prompt,
                                         s.keywords, unreadable)>>
       ELSE IF Caught(error)
       THEN <<"returned", <<"Error searching for resources: ", error>>>>
       ELSE <<"escaped", <<>>>>

\* the tool call ends with _search_files having ended in s
EndSearch(s, unreadable) ==
    /\ unreadable \subseteq Range(s.file_paths)
    /\ search' = [s EXCEPT !.pc = ToolReturn(s, unreadable)[1],
                           !.unreadable = unreadable]
    /\ response' = ToolReturn(s, unreadable)[2]

FileTypes == {"code", "document"}
KeywordLists == {<<>>, << <<"a", "b">> >>, << <<"d">> >>, << <<"a", "b">>, <<"d">> >>}
Prompts == {<<>>, <<"q">>}
ResultCounts == {-1, 0, 1, 2, DEFAULT_N_RESULTS}

\* get_src_file_by_keywords / get_doc_file_by_keywords: nothing suspends, the
\* whole tool call is one step
KeywordSearch(file_type, keywords, n_results) ==
    /\ search.pc # "embedding"
    /\ LET s0 == NewSearch(file_type, n_results, {}, {keywords})
       IN \E s \in (IF s0.raised # "" THEN {s0} ELSE KeywordLoop(s0, store)) :
             /\ \E unreadable \in SUBSET Range(s.file_paths) : EndSearch(s, unreadable)
             /\ last_query' = IF s.queries > 0 \/ s.raised = "QueryError"
                              THEN QueryCall({}, {SearchFilter(s)})
                              ELSE NoQuery
    /\ UNCHANGED <<irrelevant_file_paths, marked, store>>
    /\ UNCHANGED <<ingestVars, libVars>>

\* get_src_file_by_prompt / get_doc_file_by_prompt up to the first
\* `await embed_fn(prompt)`, or to the end when the loop is not entered
PromptSearch(file_type, prompt, n_results) ==
    /\ search.pc # "embedding"
    /\ LET s0 == NewSearch(file_type, n_results, {prompt}, {})
       IN IF s0.raised = "" /\ LoopContinues(s0)
          THEN /\ search' = [s0 EXCEPT !.pc = "embedding"]
               /\ UNCHANGED response
          ELSE EndSearch(s0, {})
    /\ last_query' = NoQuery
    /\ UNCHANGED <<irrelevant_file_paths, marked, store>>
    /\ UNCHANGED <<ingestVars, libVars>>

\* embed_fn returns and query_vectors, called with the vector and the
\* filter built before the await, returns: the loop goes on to the next
\* await, or the tool call ends
SearchEmbedReturns ==
    /\ search.pc = "embedding"
    /\ LET query_vector == {Embedding(SearchTerm(search.prompt, search.keywords))}
           filter       == {SearchFilter(search)}
       IN /\ last_query' = QueryCall(query_vector, filter)
          /\ \E file_path \in query_vectors(store, query_vector, filter) :
                LET s == AfterQuery(search, file_path)
                IN IF ~s.broke /\ LoopContinues(s)
                   THEN /\ search' = s
                        /\ UNCHANGED response
                   ELSE \E unreadable \in SUBSET Range(s.file_paths) :
                          EndSearch(s, unreadable)
    /\ UNCHANGED <<irrelevant_file_paths, marked, store>>
    /\ UNCHANGED <<ingestVars, libVars>>

\* embed_fn returns and the store's query_points raises
SearchQueryRaises ==
    /\ search.pc = "embedding"
    /\ last_query' = QueryCall({Embedding(SearchTerm(search.prompt, search.keywords))},
                               {SearchFilter(search)})
    /\ EndSearch([search EXCEPT !.raised = "QueryError"], {})
    /\ UNCHANGED <<irrelevant_file_paths, marked, store>>
    /\ UNCHANGED <<ingestVars, libVars>>

\* embed_fn raises
SearchEmbedRaises ==
    /\ search.pc = "embedding"
    /\ EndSearch([search EXCEPT !.raised = "EmbeddingError"], {})
    /\ UNCHANGED <<irrelevant_file_paths, marked, store, last_query>>
    /\ UNCHANGED <<ingestVars, libVars>>

\* Another tool call returns `text`: a search that is suspended keeps its
\* locals, those of a search that has returned are gone.
OtherToolReturns(text) ==
    /\ search' = IF search.pc = "embedding" THEN search ELSE NoSearch
    /\ response' = text

\* (mutant) a path that is in the list already is not added again
ExtendSkipsKnown(list, file_paths) ==
    list \o SelectSeq(file_paths, LAMBDA file_path : file_path \notin Range(list))

\* (mutant) the list is replaced by the new paths
ExtendReplaces(list, file_paths) == file_paths

\* list.extend(file_paths)
Extend(list, file_paths) == list \o file_paths

\* update_irrelevant_file_paths: irrelevant_file_paths.extend(file_paths)
UpdateIrrelevant(file_paths) ==
    /\ Len(irrelevant_file_paths) + Len(file_paths) <= MaxIrrelevant
    /\ irrelevant_file_paths' = Extend(irrelevant_file_paths, file_paths)
    /\ marked' = marked \o file_paths
    /\ OtherToolReturns(<<"You are reducing the scope of the search. Well done! Updated irrelevant_file_paths with ",
                          Len(file_paths), " new paths.">>)
    /\ UNCHANGED <<last_query, store>>
    /\ UNCHANGED <<ingestVars, libVars>>

\* reset_irrelevant_file_paths: irrelevant_file_paths = []
ResetIrrelevant ==
    /\ irrelevant_file_paths' = <<>>
    /\ marked' = <<>>
    /\ OtherToolReturns(<<"Irrelevant file paths have been reset. All files will be included in searches.">>)
    /\ UNCHANGED <<last_query, store>>
    /\ UNCHANGED <<ingestVars, libVars>>

\* get_irrelevant_file_paths: the list itself is the result (a list, not a
\* text: it is kept with its kind in front)
GetIrrelevant ==
    /\ OtherToolReturns(<<"irrelevant_file_paths", irrelevant_file_paths>>)
    /\ UNCHANGED <<irrelevant_file_paths, marked, last_query, store>>
    /\ UNCHANGED <<ingestVars, libVars>>

\* a direct call of query_vectors, as the client's tests make it, with or
\* without a vector and with or without a filter
DirectQuery(query_vector, metadata_filter) ==
    /\ search.pc # "embedding"
    /\ last_query' = QueryCall(query_vector, metadata_filter)
    /\ search' = NoSearch
    /\ response' = <<>>
    /\ UNCHANGED <<irrelevant_file_paths, marked, store>>
    /\ UNCHANGED <<ingestVars, libVars>>

\* the points ingestion stores for file f at modification time 1
IngestedPoints(f) ==
    LET chunks == Chunks(FileText(f, 1))
    IN {PointStruct(0, k - 1, get_file_type(RelativePath(f)), RelativePath(f),
                    IsoFormat(1), chunks[k]) : k \in 1..Len(chunks)}

UpdateLists ==
    {<<>>, <<RelativePath(MainTf)>>, <<RelativePath(VarsTf)>>,
     <<RelativePath(MainTf), RelativePath(VarsTf)>>}

----------------------------------------------------------------------------
(* QdrantDB called directly, as src/tests/test_qdrant_client.py calls it:   *)
(* construction (_ensure_collection), upsert_vectors, check_metadata_exists *)
(* and delete_vectors_by_filter on a collection of a few points.            *)

\* EMBEDDING_DIMENSIONS, the default vector_size of _ensure_collection
DIMENSIONS == 2

\* Vector sizes a collection found at construction may have been made with.
MaxVectorSize == 3

NoCollection == [exists |-> FALSE, size |-> 0, distance |-> ""]

\* VectorParams(size=vector_size, distance=Distance.COSINE)
VectorParams(size, distance) == [exists |-> TRUE, size |-> size, distance |-> distance]

\* (mutant) the collection is created whether or not it exists
CollectionMissingAlways(c) == TRUE

\* not self.client.collection_exists(self.collection_name)
CollectionMissing(c) == ~c.exists

\* _ensure_collection: <<collection, points>> after the call
_ensure_collection(c, st, vector_size) ==
    IF CollectionMissing(c)
    THEN <<VectorParams(vector_size, "Cosine"), {}>>
    ELSE <<c, st>>

NoFilter == [must |-> <<>>, must_not |-> {}]

NoCall == [op |-> "none", filter |-> NoFilter, collection |-> NoCollection,
           store |-> {}, result |-> FALSE]

\* what a direct call leaves in the history: the method, its filter, the
\* collection and its points before the call, and the call's result
Call(op, filter, result) ==
    [op |-> op, filter |-> filter, collection |-> collection, store |-> store,
     result |-> result]

\* the files whose points the direct calls upsert
ClientFiles == {MainTf, ReadmeMd, TestTxt}

\* the filters of the direct calls: by file type (one that no point has
\* among them), by path, by path and modification time, by content
ClientFilters ==
    {[must |-> <<MatchValue("file_type", t)>>, must_not |-> {}] :
        t \in {"code", "document", "non_existent_type"}}
    \cup {[must |-> <<MatchValue("file_path", RelativePath(f))>>, must_not |-> {}] :
            f \in {MainTf, ReadmeMd}}
    \cup {MetadataFilter(RelativePath(MainTf), IsoFormat(1))}
    \cup {[must |-> <<MatchText("content", <<"a", "b">>)>>, must_not |-> {}]}
    \cup {[must |-> <<MatchValue("file_type", "code")>>,
           must_not |-> {MatchText("content", <<"e">>)}]}

\* the points of a list
RECURSIVE PointList(_)
PointList(points) ==
    IF points = {} THEN <<>>
    ELSE LET p == CHOOSE q \in points : TRUE
         IN <<p>> \o PointList(points \ {p})

\* QdrantDB(collection_name=...): __init__ runs _ensure_collection
Construct ==
    /\ collection' = _ensure_collection(collection, store, DIMENSIONS)[1]
    /\ store' = _ensure_collection(collection, store, DIMENSIONS)[2]
    /\ last_call' = Call("construct", NoFilter, TRUE)
    /\ UNCHANGED <<chunker, classified>>
    /\ UNCHANGED <<ingestVars, serverVars>>

\* qdrant_db.upsert_vectors(points)
DirectUpsert(points) ==
    /\ collection.exists
    /\ store' = upsert_vectors(store, points)
    /\ last_call' = Call("upsert", NoFilter, TRUE)
    /\ UNCHANGED <<collection, chunker, classified>>
    /\ UNCHANGED <<ingestVars, serverVars>>

\* qdrant_db.check_metadata_exists(metadata_filter)
DirectExists(metadata_filter) ==
    /\ collection.exists
    /\ last_call' = Call("exists", metadata_filter,
                         check_metadata_exists(store, metadata_filter))
    /\ UNCHANGED <<store, collection, chunker, classified>>
    /\ UNCHANGED <<ingestVars, serverVars>>

\* qdrant_db.delete_vectors_by_filter(metadata_filter)
DirectDelete(metadata_filter) ==
    /\ collection.exists
    /\ store' = delete_vectors_by_filter(store, metadata_filter)
    /\ last_call' = Call("delete", metadata_filter, TRUE)
    /\ UNCHANGED <<collection, chunker, classified>>
    /\ UNCHANGED <<ingestVars, serverVars>>

----------------------------------------------------------------------------
(* The chunking loop of process_file on its own, over texts, window sizes  *)
(* and overlaps other than the configured ones, and get_file_type on its   *)
(* own.                                                                    *)

\* The longest text, and the largest max_chars and overlap, that are tried.
MaxTextLen == 4
MaxWindow == 4

\* The loop is followed for at most this many iterations: more than any
\* text needs when every iteration advances.
MaxIterations == MaxTextLen + 2

Texts == UNION {[1..n -> {"a", "b"}] : n \in 0..MaxTextLen}

\* the loop's locals before its first test: start = 0, chunks = []
NewChunker(text, max_chars, overlap) ==
    [text |-> text, max_chars |-> max_chars, overlap |-> overlap,
     start |-> 0, chunks |-> <<>>, pc |-> "loop"]

\* while start < len(text): one iteration
ChunkStep ==
    /\ chunker.pc = "loop"
    /\ ChunkLoopContinues(chunker.start, chunker.text)
    /\ Len(chunker.chunks) < MaxIterations
    /\ chunker' = [chunker EXCEPT
                     !.chunks = Append(@, Window(chunker.text, chunker.start,
                                                 chunker.max_chars)),
                     !.start = NextStart(chunker.start, chunker.max_chars,
                                         chunker.overlap)]
    /\ UNCHANGED <<collection, last_call, classified, store>>
    /\ UNCHANGED <<ingestVars, serverVars>>

\* the loop's test fails: the loop is left
ChunkExit ==
    /\ chunker.pc = "loop"
    /\ ~ChunkLoopContinues(chunker.start, chunker.text)
    /\ chunker' = [chunker EXCEPT !.pc = "done"]
    /\ UNCHANGED <<collection, last_call, classified, store>>
    /\ UNCHANGED <<ingestVars, serverVars>>

\* the paths given to the classifier: a directory or none, a stem, an ending
ClassifierPaths ==
    {dir \o stem \o ending :
        dir \in {<<>>, <<"t", "e", "s", "t", "s", "/">>},
        stem \in {<<>>, <<"m">>, <<"t", "e", "s", "t">>, <<"m", "T", "E", "S", "T", "s">>,
                  <<"t", "e", "s">>, <<"a", ".", "b">>, <<"T", "e", "s", "t", "_", "m">>},
        ending \in {<<>>, <<".">>, <<".", "t", "f">>, <<".", "g", "o">>,
                    <<".", "m", "d">>, <<".", "t", "x", "t">>, <<".", "T", "F">>,
                    <<".", "t", "f", ".">>}}
    \cup {MainTf, ReadmeMd, HandlerTestGo, NotesTxt, TestTxt}

NoClassification == [path |-> <<>>, file_type |-> ""]

\* get_file_type(Path(relative_path))
Classify(path) ==
    /\ classified' = [path |-> path, file_type |-> get_file_type(path)]
    /\ UNCHANGED <<collection, last_call, chunker, store>>
    /\ UNCHANGED <<ingestVars, serverVars>>

----------------------------------------------------------------------------

Init ==
    /\ repo_dirs \in {{}, {RepoName}}
    /\ mtime = [f \in Files |-> 1]
    /\ store = {}
    /\ phase = "idle"
    /\ status = <<"none">>
    /\ tasks = [f \in Files |-> NoTask]
    /\ sem = MAX_CONCURRENT_TASKS
    /\ upserted = 0
    /\ clean_rerun = FALSE
    /\ store0 = {}
    /\ irrelevant_file_paths = <<>>
    /\ search = NoSearch
    /\ response = <<>>
    /\ last_query = NoQuery
    /\ marked = <<>>
    /\ collection = VectorParams(DIMENSIONS, "Cosine")
    /\ last_call = NoCall
    /\ chunker = NewChunker(<<>>, MAX_CHARS, OVERLAP)
    /\ classified = NoClassification

Next ==
    \/ NoRepositories
    \/ StartRun
    \/ \E f \in Files : StartTask(f)
    \/ \E f \in Files : StartTaskRaises(f)
    \/ \E f \in Files : EmbedReturns(f)
    \/ \E f \in Files : UpsertRaises(f)
    \/ \E f \in Files : EmbedRaises(f)
    \/ Finish
    \/ CancelRun
    \/ \E f \in Files : Touch(f)

Spec == Init /\ [][Next]_vars

\* Runs that are left to themselves: nobody cancels them, no file is
\* modified.  The event loop
\* resumes every task that can go on: a task waiting for a permit gets one
\* once permits stay free, every embed_fn / store call returns or raises, and
\* gather returns once every task has ended.
LiveNext ==
    \/ NoRepositories
    \/ StartRun
    \/ \E f \in Files : StartTask(f)
    \/ \E f \in Files : StartTaskRaises(f)
    \/ \E f \in Files : EmbedReturns(f)
    \/ \E f \in Files : UpsertRaises(f)
    \/ \E f \in Files : EmbedRaises(f)
    \/ Finish

\* the steps of the task of file f
TaskNext(f) ==
    \/ StartTask(f) \/ StartTaskRaises(f)
    \/ EmbedReturns(f) \/ UpsertRaises(f) \/ EmbedRaises(f)

Fairness ==
    /\ \A f \in Files : WF_vars(TaskNext(f))
    /\ WF_vars(Finish)

SpecLive == Init /\ [][LiveNext]_vars /\ Fairness

\* The tool server over a store that ingestion has filled: the points of
\* README.md, Test.txt, handler_test.go and any of main.tf and vars.tf.
SearchInit ==
    /\ repo_dirs = {RepoName}
    /\ mtime = [f \in SearchFiles |-> 1]
    /\ \E present \in SUBSET {MainTf, VarsTf} :
          store = UNION {IngestedPoints(f) :
                           f \in present \cup {HandlerTestGo, ReadmeMd, TestTxt}}
    /\ phase = "idle"
    /\ status = <<"none">>
    /\ tasks = [f \in Files |-> NoTask]
    /\ sem = MAX_CONCURRENT_TASKS
    /\ upserted = 0
    /\ clean_rerun = FALSE
    /\ store0 = {}
    /\ irrelevant_file_paths = <<>>
    /\ search = NoSearch
    /\ response = <<>>
    /\ last_query = NoQuery
    /\ marked = <<>>
    /\ collection = VectorParams(DIMENSIONS, "Cosine")
    /\ last_call = NoCall
    /\ chunker = NewChunker(<<>>, MAX_CHARS, OVERLAP)
    /\ classified = NoClassification

SearchNext ==
    \/ \E file_type \in FileTypes, keywords \in KeywordLists, n_results \in ResultCounts :
          KeywordSearch(file_type, keywords, n_results)
    \/ \E file_type \in FileTypes, prompt \in Prompts, n_results \in ResultCounts :
          PromptSearch(file_type, prompt, n_results)
    \/ SearchEmbedReturns
    \/ SearchQueryRaises
    \/ SearchEmbedRaises
    \/ \E file_paths \in UpdateLists : UpdateIrrelevant(file_paths)
    \/ ResetIrrelevant
    \/ GetIrrelevant
    \/ \E query_vector \in {{}, {Embedding(<<"q">>)}},
          metadata_filter \in {{}, {[must |-> <<MatchValue("file_type", "code")>>,
                                      must_not |-> {}]}} :
          DirectQuery(query_vector, metadata_filter)

SpecSearch == SearchInit /\ [][SearchNext]_vars

\* the variables of ingestion and of the tool server at rest
AtRest ==
    /\ repo_dirs = {RepoName}
    /\ mtime = [f \in Files |-> 1]
    /\ phase = "idle"
    /\ status = <<"none">>
    /\ tasks = [f \in Files |-> NoTask]
    /\ sem = MAX_CONCURRENT_TASKS
    /\ upserted = 0
    /\ clean_rerun = FALSE
    /\ store0 = {}
    /\ irrelevant_file_paths = <<>>
    /\ search = NoSearch
    /\ response = <<>>
    /\ last_query = NoQuery
    /\ marked = <<>>

\* Direct calls of QdrantDB: the collection does not exist yet, or it does,
\* made with some vector size and holding the points of some files.
ClientInit ==
    /\ AtRest
    /\ \/ collection = NoCollection /\ store = {}
       \/ /\ \E size \in 1..MaxVectorSize : collection = VectorParams(size, "Cosine")
          /\ \E present \in SUBSET ClientFiles :
                store = UNION {IngestedPoints(f) : f \in present}
    /\ last_call = NoCall
    /\ chunker = NewChunker(<<>>, MAX_CHARS, OVERLAP)
    /\ classified = NoClassification

ClientNext ==
    \/ Construct
    \/ \E f \in ClientFiles : DirectUpsert(PointList(IngestedPoints(f)))
    \/ \E metadata_filter \in ClientFilters : DirectExists(metadata_filter)
    \/ \E metadata_filter \in ClientFilters : DirectDelete(metadata_filter)

SpecClient == ClientInit /\ [][ClientNext]_vars

\* The chunking loop on any text with any window size and overlap.
ChunkInit ==
    /\ AtRest
    /\ store = {}
    /\ collection = VectorParams(DIMENSIONS, "Cosine")
    /\ last_call = NoCall
    /\ \E text \in Texts, max_chars \in 1..MaxWindow, overlap \in 0..MaxWindow :
          chunker = NewChunker(text, max_chars, overlap)
    /\ classified = NoClassification

ChunkNext == ChunkStep \/ ChunkExit

SpecChunk == ChunkInit /\ [][ChunkNext]_vars

\* The classifier on any path.
ClassifyInit ==
    /\ AtRest
    /\ store = {}
    /\ collection = VectorParams(DIMENSIONS, "Cosine")
    /\ last_call = NoCall
    /\ chunker = NewChunker(<<>>, MAX_CHARS, OVERLAP)
    /\ classified = NoClassification

ClassifyNext == \E path \in ClassifierPaths : Classify(path)

SpecClassify == ClassifyInit /\ [][ClassifyNext]_vars

----------------------------------------------------------------------------
(* Properties of the ingestion pipeline *)

PointsOf(path) == {p \in store : p.file_path = path}

PointsAt(path, last_modified) ==
    {p \in store : p.file_path = path /\ p.last_modified = last_modified}

\* the number of chunks of file f as it is on disk
ChunkCount(f) == Len(Chunks(FileText(f, mtime[f])))

\* the number of chunks of file f as the file's task read it
TaskChunkCount(f) == Len(Chunks(FileText(f, tasks[f].last_modified[2])))

Success == <<"Processing completed successfully">>

\* the file's task of the current (or last) run returned / upserted, and the
\* file has not been modified since the task looked at it
Current(f) == tasks[f].last_modified = IsoFormat(mtime[f])

\* C1 (as claimed): once a run has processed a file, the points stored for
\* its file_path are exactly the chunks of the file as it is now: the points
\* of an earlier version are deleted, not added to.
C1_ChangeDetection ==
    \A f \in Files :
        (tasks[f].pc = "done" /\ tasks[f].result = "upserted" /\ Current(f))
            => Cardinality(PointsOf(RelativePath(f))) = ChunkCount(f)

\* C2 (as claimed): in a run that follows a successful run over unchanged
\* files nothing is upserted and every code or document file whose task
\* returns was detected as unchanged.
C2_AllUnchanged ==
    clean_rerun =>
        /\ upserted = 0
        /\ \A f \in Files :
              (tasks[f].pc = "done"
                 /\ get_file_type(RelativePath(f)) \in {"code", "document"})
                  => tasks[f].result = "unchanged"

\* C2 (amended): in a run that follows a successful run over unchanged files
\* nothing is upserted, no task requests an embedding, and every ingested
\* file that has at least one chunk is detected as unchanged when its task
\* returns; a file without chunks is never detected as unchanged.
C2_IdempotentReingestion ==
    clean_rerun =>
        /\ upserted = 0
        /\ \A f \in Files :
              /\ tasks[f].pc # "embedding"
              /\ (tasks[f].pc = "done"
                    /\ get_file_type(RelativePath(f)) # "not_supported")
                  => (tasks[f].result = "unchanged" <=> TaskChunkCount(f) > 0)

C2_Witness ==
    /\ clean_rerun
    /\ phase = "idle"
    /\ status = Success
    /\ tasks[MainTf].result = "unchanged"
    /\ tasks[ReadmeMd].result = "upserted"
    /\ PointsOf(RelativePath(MainTf)) # {}

\* C3 (as claimed): no point of file type "test" or "not_supported" is ever
\* stored.
C3_NoTestPoints ==
    \A p \in store : p.file_type \notin {"test", "not_supported"}

\* C4: when process_data returns from gather, every task has run to its end
\* (returned or raised), the points of every task that upserted are stored,
\* and the status counts exactly the tasks that raised: "completed
\* successfully" iff none did.
C4_FailureIsolation ==
    (phase = "idle" /\ status \notin {<<"none">>, <<"cancelled">>,
                                      <<"No local repositories found">>})
    =>
        /\ \A f \in Files : tasks[f].pc \in {"done", "failed"}
        /\ \A f \in Files :
              tasks[f].result = "upserted" =>
                  Cardinality(PointsAt(RelativePath(f), tasks[f].last_modified))
                      = TaskChunkCount(f)
        /\ LET n == Cardinality({f \in Files : tasks[f].pc = "failed"})
           IN /\ n > 0 => status = <<"Processing completed with", n, "errors">>
              /\ n = 0 <=> status = Success

C4_Witness ==
    /\ phase = "idle"
    /\ status = <<"Processing completed with", 2, "errors">>
    /\ tasks[MainTf].pc = "failed"
    /\ tasks[ReadmeMd].pc = "failed"
    /\ tasks[TestTxt].result = "upserted"
    /\ PointsOf(RelativePath(TestTxt)) # {}

\* the tasks that have entered process_file and not left it
InFlight == {f \in Files : tasks[f].pc = "embedding"}

\* C5: at most MAX_CONCURRENT_TASKS process_file invocations are in flight.
C5_BoundedConcurrency == Cardinality(InFlight) <= MAX_CONCURRENT_TASKS

C5_Witness ==
    /\ Cardinality(InFlight) = MAX_CONCURRENT_TASKS
    /\ sem = 0
    /\ \E f \in Files :
          /\ tasks[f].pc = "created"
          /\ get_file_type(RelativePath(f)) # "not_supported"
          /\ ChunkCount(f) > 0

\* C6 (as claimed): a file whose processing failed or was cancelled in the
\* previous run, and that is unchanged since, is not detected as unchanged.
C6_FailedNeverUnchanged ==
    \A f \in Files :
        tasks[f].prev \in {"exists", "pipeline"} => tasks[f].result # "unchanged"

\* C6 (amended): a file whose processing failed after its existence check
\* (delete, read, embedding or upsert raised), or was cancelled while
\* suspended in its pipeline, and that is unchanged since, is not detected as
\* unchanged by the next run and is processed in full if its task returns;
\* and after any run that completed successfully the store holds, for every
\* ingested file and its current last_modified, exactly the file's chunks.
C6_Convergence ==
    /\ \A f \in Files :
          tasks[f].prev = "pipeline" =>
              /\ tasks[f].result # "unchanged"
              /\ tasks[f].pc = "done" => tasks[f].result = "upserted"
    /\ (phase = "idle" /\ status = Success) =>
          \A f \in Files :
              (get_file_type(RelativePath(f)) # "not_supported" /\ Current(f))
                  => Cardinality(PointsAt(RelativePath(f), IsoFormat(mtime[f])))
                         = ChunkCount(f)

C6_Witness ==
    /\ phase = "idle"
    /\ status = Success
    /\ tasks[MainTf].prev = "pipeline"
    /\ tasks[MainTf].result = "upserted"
    /\ tasks[TestTxt].prev = "pipeline"
    /\ Cardinality(PointsAt(RelativePath(MainTf), IsoFormat(mtime[MainTf]))) = ChunkCount(MainTf)
    /\ ChunkCount(MainTf) > 0

----------------------------------------------------------------------------
(* Search tools *)

\* the search tool call has run _search_files to its return statement
Completed == search.pc = "returned" /\ search.raised = ""
             /\ ArgumentError(search.prompt, search.keywords) = ""

\* the paths of the stored points that pass the search's must conditions
MatchingPaths(s) ==
    {p.file_path : p \in {q \in store :
        Matches(q, [must |-> MustConditions(s.file_type, s.keywords), must_not |-> {}])}}

Distinct(seq) == \A i, j \in 1..Len(seq) : i # j => seq[i] # seq[j]

\* C7: a search started after update_irrelevant_file_paths was given a path,
\* with no reset_irrelevant_file_paths in between, never has that path among
\* the paths it has found, at any point of the search and whatever further
\* updates and resets happen while it runs.
C7_ExclusionAccumulation ==
    search.pc # "idle" => Range(search.file_paths) \cap search.excluded = {}

\* a search over a list built by two updates, both of whose files are in the
\* store and match, has returned the only matching file that was not marked,
\* with room for more
C7_Witness ==
    /\ Completed
    /\ irrelevant_file_paths = <<RelativePath(VarsTf), RelativePath(MainTf)>>
    /\ search.excluded = {RelativePath(MainTf), RelativePath(VarsTf)}
    /\ search.excluded \subseteq MatchingPaths(search)
    /\ Len(search.file_paths) = 1
    /\ search.n_results > 1

\* C8: a search that ran to its return statement over an unchanging store
\* returns pairwise distinct paths, as many as min(n_results, number of
\* matching paths not excluded at its start), none and without a query when
\* n_results <= 0; it makes one query per path returned, and one more, which
\* finds nothing, exactly when the store is exhausted first.
C8_SearchResultCount ==
    /\ search.pc # "idle" => Distinct(search.file_paths)
    /\ Completed =>
        LET available == MatchingPaths(search) \ search.excluded
            found     == Len(search.file_paths)
        IN /\ Range(search.file_paths) \subseteq available
           /\ search.n_results <= 0 => found = 0 /\ search.queries = 0
           /\ search.n_results > 0 => found = Min(search.n_results, Cardinality(available))
           /\ search.queries = found + (IF found < search.n_results THEN 1 ELSE 0)
           /\ search.queries <= (IF search.n_results > 0 THEN search.n_results ELSE 0) + 1

\* a semantic search stopped at n_results = 1 with a second file available
C8_Witness ==
    /\ Completed
    /\ search.prompt # {}
    /\ search.n_results = 1
    /\ Len(search.file_paths) = 1
    /\ search.queries = 1
    /\ Cardinality(MatchingPaths(search) \ search.excluded) = 2

\* C9 as the specification states it: query_vectors raises the
\* invalid-argument error, and queries nothing, unless exactly one of the
\* vector and the filter is supplied.
C9_ExactlyOneSucceeds ==
    last_query.called =>
        /\ last_query.value_error <=> (last_query.has_vector <=> last_query.has_filter)
        /\ last_query.performed <=> ~(last_query.has_vector <=> last_query.has_filter)

\* C9 (amended): query_vectors raises the invalid-argument error, and queries
\* nothing, exactly when neither a vector nor a filter is supplied; with one
\* of them, or with both, it queries the store.
C9_NeitherFails ==
    last_query.called =>
        /\ last_query.value_error <=> (~last_query.has_vector /\ ~last_query.has_filter)
        /\ last_query.performed <=> (last_query.has_vector \/ last_query.has_filter)
        /\ ~(last_query.value_error /\ last_query.performed)

\* a semantic search has queried with a vector and a filter and got a path
C9_Witness ==
    /\ last_query.called /\ last_query.has_vector /\ last_query.has_filter
    /\ last_query.performed
    /\ search.prompt # {}
    /\ Len(search.file_paths) > 0

\* C10: a search tool call never ends in an exception: it returns a text,
\* which starts with "Error searching for resources: " when the arguments,
\* the embedding call or the store's query raised, is the "No ... matches
\* found for" message when the search found nothing, and starts with "Found "
\* otherwise.
C10_NoExceptionSurfaces ==
    /\ search.pc \in {"idle", "embedding", "returned"}
    /\ search.pc = "returned" =>
        /\ Len(response) > 0
        /\ ~Completed <=> response[1] = "Error searching for resources: "
        /\ (Completed /\ search.file_paths = <<>>)
             <=> (response[1] = "No " /\ response[3] = " matches found for ")
        /\ (Completed /\ search.file_paths # <<>>) <=> response[1] = "Found "

\* the embedding call of a semantic search raised after a first path was found
C10_Witness ==
    /\ search.pc = "returned"
    /\ search.raised = "EmbeddingError"
    /\ Len(search.file_paths) = 1
    /\ response[1] = "Error searching for resources: "

\* C11: the response for found files f1..fn has, after its header, one
\* section per found file in the order found; the section of a file whose
\* read failed holds the "Error reading file" line for that file, the
\* section of any other file holds the file's text and its end line,
\* whichever reads fail.
C11_ReadErrorsInline ==
    (Completed /\ search.file_paths # <<>>) =>
        /\ Len(response) = 12 + 7 * Len(search.file_paths)
        /\ \A k \in 1..Len(search.file_paths) :
             LET file_path == search.file_paths[k]
                 at        == 12 + 7 * (k - 1)
             IN /\ response[at + 1] = "\n### File: "
                /\ response[at + 2] = file_path
                /\ IF file_path \in search.unreadable
                   THEN /\ response[at + 4] = <<>>
                        /\ response[at + 5] = "\nError reading file "
                        /\ response[at + 6] = file_path
                   ELSE /\ response[at + 4] = FileText(PathName(file_path), 1)
                        /\ response[at + 5] = "\n### End of "
                        /\ response[at + 6] = file_path

\* three files were found; the read of the first failed, the second was
\* read, the read of the third failed
C11_Witness ==
    /\ Completed
    /\ Len(search.file_paths) = 3
    /\ search.unreadable = {search.file_paths[1], search.file_paths[3]}
    /\ response[12 + 5] = "\nError reading file "
    /\ response[12 + 7 + 5] = "\n### End of "

----------------------------------------------------------------------------
(* Chunking and classification *)

\* the chunking loop has been left with a valid configuration
Chunked == chunker.pc = "done" /\ chunker.overlap < chunker.max_chars

\* chunk[overlap:]
DropFirst(chunk, n) == SubSeq(chunk, n + 1, Len(chunk))

\* the first chunk, then every later chunk without its first `overlap`
\* characters, concatenated
RECURSIVE Reassemble(_, _, _)
Reassemble(chunks, overlap, k) ==
    IF k > Len(chunks) THEN <<>>
    ELSE (IF k = 1 THEN chunks[1] ELSE DropFirst(chunks[k], overlap))
         \o Reassemble(chunks, overlap, k + 1)

\* C12: for 0 <= overlap < max_chars, the chunks of a text, each after the
\* first without its first `overlap` characters, concatenate to the text.
C12_ChunkRoundTrip ==
    Chunked => Reassemble(chunker.chunks, chunker.overlap, 1) = chunker.text

\* a text of four characters was cut with max_chars = 3 and overlap = 2 into
\* four chunks, the last two no longer than the overlap
C12_Witness ==
    /\ Chunked
    /\ Len(chunker.text) = 4
    /\ chunker.max_chars = 3
    /\ chunker.overlap = 2
    /\ Len(chunker.chunks) = 4
    /\ Len(chunker.chunks[3]) <= chunker.overlap
    /\ chunker.chunks[1] # chunker.chunks[2]

\* C13 as the specification states it: the empty text has no chunk, and a
\* non-empty text shorter than max_chars has exactly one, the whole text.
C13_ShortTextOneChunk ==
    Chunked =>
        /\ chunker.text = <<>> => chunker.chunks = <<>>
        /\ (0 < Len(chunker.text) /\ Len(chunker.text) < chunker.max_chars)
             => chunker.chunks = <<chunker.text>>

\* C13 (amended): the empty text has no chunk; a non-empty text no longer
\* than max_chars - overlap has exactly one, the whole text; a text longer
\* than max_chars - overlap and shorter than max_chars has the whole text as
\* its first chunk and after it one chunk per further multiple of
\* max_chars - overlap below its length, the text's tail from that offset.
C13_ChunkerEdgeCases ==
    Chunked =>
        LET n    == Len(chunker.text)
            step == chunker.max_chars - chunker.overlap
        IN /\ n = 0 => chunker.chunks = <<>>
           /\ (0 < n /\ n <= step) => chunker.chunks = <<chunker.text>>
           /\ (step < n /\ n < chunker.max_chars) =>
                /\ chunker.chunks[1] = chunker.text
                /\ Len(chunker.chunks) = 1 + Cardinality({k \in 1..n : k * step < n})
                /\ \A k \in 2..Len(chunker.chunks) :
                     chunker.chunks[k] = SubSeq(chunker.text, (k - 1) * step + 1, n)

\* a text of three characters, shorter than max_chars = 4 and longer than
\* max_chars - overlap = 1, was cut into three chunks
C13_Witness ==
    /\ Chunked
    /\ Len(chunker.text) = 3
    /\ chunker.max_chars = 4
    /\ chunker.overlap = 3
    /\ Len(chunker.chunks) = 3

----------------------------------------------------------------------------
(* process_file: what it stores *)

\* the offsets k * (max_chars - overlap) below the length n, as their k
WindowIndices(n, max_chars, overlap) ==
    {k \in 0..n : k * (max_chars - overlap) < n}

\* the file's task upserted, and the store holds no point of another version
\* of the file
ProcessedNew(f) ==
    /\ tasks[f].pc = "done" /\ tasks[f].result = "upserted"
    /\ PointsOf(RelativePath(f)) = PointsAt(RelativePath(f), tasks[f].last_modified)

\* C15: after a file of length L that had no point was processed, the store
\* holds for it exactly one point per offset k(M - O) below L, the k-th with
\* content text[k(M-O) : k(M-O)+M] of at most M characters, with pairwise
\* distinct ids, and all with the repo-prefixed file_path, the repo, the
\* last_modified and one file_type.
C15_OnePointPerWindow ==
    \A f \in Files : ProcessedNew(f) =>
        LET text   == FileText(f, tasks[f].last_modified[2])
            n      == Len(text)
            step   == MAX_CHARS - OVERLAP
            points == PointsOf(RelativePath(f))
            K      == WindowIndices(n, MAX_CHARS, OVERLAP)
        IN /\ Cardinality(points) = Cardinality(K)
           /\ Cardinality({p.id : p \in points}) = Cardinality(points)
           /\ \A k \in K : \E p \in points :
                /\ p.id[3] = k
                /\ p.content = SubSeq(text, k * step + 1, Min(k * step + MAX_CHARS, n))
                /\ Len(p.content) <= MAX_CHARS
           /\ \A p \in points :
                /\ p.file_path = RepoName \o <<"/">> \o f
                /\ p.repo = RepoName
                /\ p.last_modified = tasks[f].last_modified
                /\ \A q \in points : q.file_type = p.file_type

\* main.tf, five characters long, was processed with max_chars 3 and
\* overlap 1 and has three points, README.md, two characters long, has one
C15_Witness ==
    /\ ProcessedNew(MainTf) /\ ProcessedNew(ReadmeMd)
    /\ Len(FileText(MainTf, tasks[MainTf].last_modified[2])) = 5
    /\ Cardinality(PointsOf(RelativePath(MainTf))) = 3
    /\ Cardinality(PointsOf(RelativePath(ReadmeMd))) = 1

\* the step is the task of f running from its creation to its return as
\* skipped
Skips(f) ==
    /\ tasks[f].pc = "created"
    /\ tasks'[f].pc = "done"
    /\ tasks'[f].result \in {"unchanged", "unsupported"}

\* C19: a task that skips its file, as UNCHANGED or as NOT_SUPPORTED, leaves
\* the store as it is, takes no permit for an embedding request and upserts
\* nothing; a file is skipped as UNCHANGED only when a point of its path and
\* modification time is stored; the task of a NOT_SUPPORTED file makes no
\* call of the store, so it never fails.
C19_SkippedFilesNoEffect ==
    /\ [](\A f \in Files :
            /\ (tasks[f].pc = "done" /\ tasks[f].result = "unchanged")
                 => PointsAt(RelativePath(f), tasks[f].last_modified) # {}
            /\ tasks[f].file_type = "not_supported"
                 => /\ tasks[f].pc # "failed"
                    /\ PointsOf(RelativePath(f)) = {})
    /\ [][\A f \in Files :
            Skips(f) => /\ store' = store
                        /\ upserted' = upserted
                        /\ sem' = sem
                        /\ \A g \in Files \ {f} : tasks'[g] = tasks[g]]_vars

\* in one run README.md was skipped as UNCHANGED and notes.txt as
\* NOT_SUPPORTED while the task of main.tf failed
C19_Witness ==
    /\ tasks[ReadmeMd].pc = "done" /\ tasks[ReadmeMd].result = "unchanged"
    /\ tasks[NotesTxt].pc = "done" /\ tasks[NotesTxt].result = "unsupported"
    /\ tasks[MainTf].pc = "failed"
    /\ PointsOf(RelativePath(ReadmeMd)) # {}

\* C20: at every moment the points stored for a file_path and last_modified
\* are none or as many as that version of the file has chunk windows; while
\* a file is being embedded, and after its task failed past the existence
\* check or was cancelled while embedding, none of that version is stored.
C20_AllOrNothing ==
    /\ \A f \in Files : \A m \in 1..MaxMtime :
         Cardinality(PointsAt(RelativePath(f), IsoFormat(m)))
           \in {0, Cardinality(WindowIndices(Len(FileText(f, m)), MAX_CHARS, OVERLAP))}
    /\ \A f \in Files :
         (\/ tasks[f].pc = "embedding"
          \/ (tasks[f].pc = "failed" /\ tasks[f].result = "raised")
          \/ (tasks[f].pc = "cancelled" /\ tasks[f].result = "embedding"))
           => PointsAt(RelativePath(f), tasks[f].last_modified) = {}

\* the first batch of main.tf's three chunks is embedded, the second is
\* awaited, nothing of main.tf is stored, and README.md is stored
C20_Witness ==
    /\ tasks[MainTf].pc = "embedding"
    /\ tasks[MainTf].i = CHUNK_BATCH_SIZE
    /\ Len(tasks[MainTf].all_points) = CHUNK_BATCH_SIZE
    /\ Len(tasks[MainTf].chunks) = 3
    /\ PointsOf(RelativePath(MainTf)) = {}
    /\ PointsOf(RelativePath(ReadmeMd)) # {}

----------------------------------------------------------------------------
(* get_file_type *)

\* the file name of the path: what follows its last "/"
FileName(path) ==
    LET slashes == {i \in 1..Len(path) : path[i] = "/"}
    IN IF slashes = {} THEN path
       ELSE SubSeq(path, (CHOOSE i \in slashes : \A j \in slashes : j <= i) + 1, Len(path))

\* the name ends with the extension and has something before it
HasExtension(name, extension) ==
    /\ Len(name) > Len(extension)
    /\ SubSeq(name, Len(name) - Len(extension) + 1, Len(name)) = extension

\* the name contains "test" in any case
NamesTest(name) ==
    \E i \in 1..(Len(name) - 3) :
        /\ name[i] \in {"t", "T"} /\ name[i + 1] \in {"e", "E"}
        /\ name[i + 2] \in {"s", "S"} /\ name[i + 3] \in {"t", "T"}

\* C16: every path has exactly one type; a name with extension .tf or .go is
\* CODE and one with extension .md is DOCUMENT, also when the name contains
\* "test"; any other name that contains "test" in any case is TEST; every
\* other one is NOT_SUPPORTED.
C16_ClassifierPrecedence ==
    classified # NoClassification =>
        LET name == FileName(classified.path)
            code == HasExtension(name, <<".", "t", "f">>) \/ HasExtension(name, <<".", "g", "o">>)
            doc  == HasExtension(name, <<".", "m", "d">>)
        IN /\ classified.file_type \in {"code", "document", "test", "not_supported"}
           /\ classified.file_type = "code" <=> code
           /\ classified.file_type = "document" <=> doc
           /\ classified.file_type = "test" <=> (~code /\ ~doc /\ NamesTest(name))
           /\ classified.file_type = "not_supported"
                <=> (~code /\ ~doc /\ ~NamesTest(name))

\* handler_test.go was classified, as CODE
C16_Witness ==
    /\ classified.path = HandlerTestGo
    /\ NamesTest(FileName(classified.path))
    /\ classified.file_type = "code"

----------------------------------------------------------------------------
(* QdrantDB called directly *)

Matching(st, filter) == {p \in st : Matches(p, filter)}

\* C17: after delete_vectors_by_filter(filter) no stored point matches the
\* filter, the points that did not match are all there and nothing else is,
\* check_metadata_exists answers as before for every filter that matched
\* none of the points the deleted filter matched, and the store is as before
\* when nothing matched.
C17_DeleteFrame ==
    last_call.op = "delete" =>
        LET before == last_call.store
            filter == last_call.filter
        IN /\ ~check_metadata_exists(store, filter)
           /\ Matching(store, filter) = {}
           /\ store = before \ Matching(before, filter)
           /\ \A other \in ClientFilters :
                Matching(before, other) \cap Matching(before, filter) = {}
                  => (check_metadata_exists(store, other)
                        <=> check_metadata_exists(before, other))
           /\ Matching(before, filter) = {} => store = before

\* the three points of main.tf were deleted by path; the points of
\* README.md and Test.txt are still there
C17_Witness ==
    /\ last_call.op = "delete"
    /\ Cardinality(Matching(last_call.store, last_call.filter)) = 3
    /\ Cardinality(store) = Cardinality(last_call.store) - 3
    /\ PointsOf(RelativePath(ReadmeMd)) # {}
    /\ PointsOf(RelativePath(TestTxt)) # {}

\* C18: constructing a QdrantDB leaves the collection existing; it creates
\* the collection, with the configured vector size and cosine distance, only
\* when there was none, and leaves the parameters and the points of an
\* existing collection as they were.
C18_EnsureCollectionIdempotent ==
    last_call.op = "construct" =>
        /\ collection.exists
        /\ last_call.collection.exists
             => (collection = last_call.collection /\ store = last_call.store)
        /\ ~last_call.collection.exists
             => (collection = VectorParams(DIMENSIONS, "Cosine") /\ store = {})

\* a QdrantDB was constructed over a collection of another vector size that
\* holds points
C18_Witness ==
    /\ last_call.op = "construct"
    /\ last_call.collection.exists
    /\ collection.size # DIMENSIONS
    /\ Cardinality(store) > 2

----------------------------------------------------------------------------
(* Ingestion runs and the store *)

\* C21: no step of ingestion removes or changes a stored point: the delete
\* of process_file, made with the filter that the existence check has just
\* found to match nothing, removes nothing, and the upsert only adds.
C21_StoreOnlyGrows == [][store \subseteq store']_vars

\* main.tf was modified and processed again: its three old points are still
\* stored next to the new one
C21_Witness ==
    /\ tasks[MainTf].pc = "done" /\ tasks[MainTf].result = "upserted"
    /\ tasks[MainTf].last_modified = IsoFormat(2)
    /\ Cardinality(PointsAt(RelativePath(MainTf), IsoFormat(1))) = 3
    /\ Cardinality(PointsAt(RelativePath(MainTf), IsoFormat(2))) = 1

----------------------------------------------------------------------------
(* Interleaved and sequential processing of the files of one run *)

\* the payload of a point: the point without its generated id
Payload(p) ==
    [file_type |-> p.file_type, file_path |-> p.file_path,
     last_modified |-> p.last_modified, repo |-> p.repo, content |-> p.content]

\* two stores hold the same points, compared by payload and counted
SamePayloads(st1, st2) ==
    \A pl \in {Payload(p) : p \in st1 \cup st2} :
        Cardinality({p \in st1 : Payload(p) = pl})
            = Cardinality({p \in st2 : Payload(p) = pl})

\* all_points of process_file for the file version the task of f read, the
\* ids generated over the store st
AllPoints(st, f) ==
    LET t      == tasks[f]
        chunks == Chunks(FileText(f, t.last_modified[2]))
        gen    == FreshGeneration(st, t.relative_path)
    IN [k \in 1..Len(chunks) |->
           PointStruct(gen, k - 1, t.file_type, t.relative_path,
                       t.last_modified, chunks[k])]

\* process_file(f) run from its start to its end with no other task in
\* between, over the store st, ending as the task of f has ended: the stores
\* it can leave (none if it cannot end that way over st; two if it raised
\* after the existence check, before or after the delete).
ProcessedAlone(st, f) ==
    LET t       == tasks[f]
        filter  == MetadataFilter(t.relative_path, t.last_modified)
        cleaned == delete_vectors_by_filter(st, DeleteFilter(filter))
    IN IF ReturnsBeforeStoreCalls(t.file_type)
       THEN IF t.result = "unsupported" THEN {st} ELSE {}
       ELSE IF t.pc = "failed" /\ t.result = "exists" THEN {st}
       ELSE IF check_metadata_exists(st, filter)
       THEN IF t.result = "unchanged" THEN {st} ELSE {}
       ELSE IF t.pc = "failed" /\ t.result = "raised" THEN {st, cleaned}
       ELSE IF t.pc = "done" /\ t.result = "upserted"
       THEN {upsert_vectors(cleaned, AllPoints(cleaned, f))}
       ELSE {}

\* the files are processed one after another in the given order, from the
\* i-th on, over each of the stores of S
RECURSIVE Sequential(_, _, _)
Sequential(S, order, i) ==
    IF i > Len(order) THEN S
    ELSE Sequential(UNION {ProcessedAlone(st, order[i]) : st \in S}, order, i + 1)

\* the orders in which the files of a run can be processed one by one
Orders ==
    {o \in [1..Cardinality(Files) -> Files] :
        \A i, j \in 1..Cardinality(Files) : o[i] = o[j] => i = j}

\* process_data has returned its status for the tasks as they are
RunCompleted ==
    /\ phase = "idle"
    /\ \A f \in Files : tasks[f].pc \in {"done", "failed"}
    /\ status = ProcessDataStatus(tasks)

\* the points that a step adds to, removes from or changes in the store
Touched == (store \ store') \cup (store' \ store)

\* the step is one of the task of file f within a run
TaskStep(f) == phase = "running" /\ phase' = "running" /\ tasks'[f] # tasks[f]

\* C22: within a run every file path has one task of its own; what the
\* existence check of a task returns depends on the points of the task's
\* file_path alone, and a step of a task adds, removes or changes only points
\* of that file_path; and once a run has completed, however its tasks were
\* interleaved, the store holds, payload by payload, what it holds when the
\* files are processed one after another, in any order, from the store the
\* run started with.
C22_TasksIndependent ==
    /\ [](/\ \A f, g \in Files : RelativePath(f) = RelativePath(g) => f = g
          /\ phase = "running" => \A f \in Files : tasks[f].pc # "none"
          /\ \A f \in Files :
                LET filter == MetadataFilter(RelativePath(f), IsoFormat(mtime[f]))
                IN check_metadata_exists(store, filter)
                     = check_metadata_exists(PointsOf(RelativePath(f)), filter)
          /\ RunCompleted =>
                \A o \in Orders :
                    \E st \in Sequential({store0}, o, 1) : SamePayloads(store, st))
    /\ [][\A f \in Files : TaskStep(f) =>
            \A p \in Touched : p.file_path = RelativePath(f)]_vars

\* a second run has completed over a store that held three points of main.tf:
\* main.tf, modified, and README.md were upserted by tasks that were suspended
\* at the same time, the task of a third file found it unchanged
C22_Witness ==
    /\ RunCompleted
    /\ Cardinality({p \in store0 : p.file_path = RelativePath(MainTf)}) = 3
    /\ tasks[MainTf].result = "upserted" /\ tasks[MainTf].last_modified = IsoFormat(2)
    /\ tasks[ReadmeMd].result = "upserted"
    /\ \E f \in Files : tasks[f].result = "unchanged"
    /\ Cardinality(store \ store0) = 2

----------------------------------------------------------------------------
(* The semaphore and the end of a run *)

\* the task of f has returned or raised
Finished(f) == tasks[f].pc \in {"done", "failed"}

\* C23: whenever no task is between two steps of its pipeline all permits
\* are back or held by a suspended task, so no ended task keeps one; every
\* created task gets a permit and returns or raises; a started run returns a
\* status; and process_data returns only when every task has ended.
C23_NoPermitLeak ==
    /\ [](phase = "running" =>
             /\ sem >= 0
             /\ sem + Cardinality(InFlight) = MAX_CONCURRENT_TASKS)
    /\ \A f \in Files : (tasks[f].pc = "created") ~> Finished(f)
    /\ (phase = "running") ~> (phase = "idle" /\ status = ProcessDataStatus(tasks))
    /\ [][(phase = "running" /\ phase' = "idle") =>
            /\ \A f \in Files : Finished(f)
            /\ tasks' = tasks
            /\ status' = ProcessDataStatus(tasks)]_vars

\* three tasks took one of the two permits each, one of them raised in its
\* pipeline, and the run has returned its status with both permits back
C23_Witness ==
    /\ phase = "idle"
    /\ status = <<"Processing completed with", 1, "errors">>
    /\ sem = MAX_CONCURRENT_TASKS
    /\ tasks[MainTf].pc = "failed" /\ tasks[MainTf].result = "raised"
    /\ tasks[ReadmeMd].result = "upserted"
    /\ tasks[TestTxt].result = "upserted"

----------------------------------------------------------------------------
(* The session's list of irrelevant paths *)

\* the last tool call was get_irrelevant_file_paths
ListReturned == Len(response) = 2 /\ response[1] = "irrelevant_file_paths"

\* a search tool has taken a step: it started, went on after an await, or
\* returned
SearchStep == search' # search /\ search'.pc # "idle"

UpdateText ==
    "You are reducing the scope of the search. Well done! Updated irrelevant_file_paths with "

ResetText ==
    "Irrelevant file paths have been reset. All files will be included in searches."

\* C24: the list is at every moment the concatenation of the updates since
\* the last reset, duplicates kept, and so is what get_irrelevant_file_paths
\* returns; no step of a search changes the list; a step that changes it is
\* an update, which appends as many paths as it reports, or a reset, which
\* empties it.
C24_ListFrame ==
    /\ [](/\ irrelevant_file_paths = marked
          /\ ListReturned => response[2] = marked)
    /\ [][/\ SearchStep => irrelevant_file_paths' = irrelevant_file_paths
          /\ irrelevant_file_paths' # irrelevant_file_paths =>
               \/ /\ response'[1] = UpdateText
                  /\ Len(irrelevant_file_paths')
                       = Len(irrelevant_file_paths) + response'[2]
                  /\ SubSeq(irrelevant_file_paths', 1, Len(irrelevant_file_paths))
                       = irrelevant_file_paths
               \/ /\ response' = <<ResetText>>
                  /\ irrelevant_file_paths' = <<>>]_vars

\* get_irrelevant_file_paths returned main.tf twice, as two updates gave it,
\* while a semantic search that has found another file is suspended
C24_Witness ==
    /\ ListReturned
    /\ response[2] = <<RelativePath(MainTf), RelativePath(MainTf)>>
    /\ search.pc = "embedding"
    /\ Len(search.file_paths) = 1
    /\ search.file_paths[1] \notin Range(irrelevant_file_paths)

\* a semantic search has gone on after an await of embed_fn
Resumed == search.pc = "embedding" /\ search' # search /\ search'.raised = ""

\* C25: the paths a search excludes are the list as it was when the search
\* started and the paths the search has found; an update or a reset made
\* while a semantic search is suspended leaves the search's locals as they
\* are; and the query the search makes when it goes on finds a matching path
\* outside that exclusion set whenever there is one, whether or not the
\* path has been marked in the meantime.
C25_SnapshotExclusion ==
    /\ [](search.pc # "idle" =>
             search.seen_paths = search.excluded \cup Range(search.file_paths))
    /\ [][/\ (search.pc = "embedding" /\ irrelevant_file_paths' # irrelevant_file_paths)
               => search' = search
          /\ Resumed =>
               /\ search'.excluded = search.excluded
               /\ IF MatchingPaths(search) \subseteq search.seen_paths
                  THEN search'.file_paths = search.file_paths
                  ELSE \E file_path \in MatchingPaths(search) \ search.seen_paths :
                          search'.file_paths = Append(search.file_paths, file_path)]_vars

\* a semantic search that started with an empty list has returned vars.tf,
\* which was marked irrelevant while the search was suspended
C25_Witness ==
    /\ Completed
    /\ search.prompt # {}
    /\ search.excluded = {}
    /\ RelativePath(VarsTf) \in Range(search.file_paths)
    /\ RelativePath(VarsTf) \in Range(irrelevant_file_paths)

====
